---- MODULE Spec2Model ----
(***************************************************************************)
(* Model of the LeetCode Solution Assistant side panel (src/popup.js).     *)
(*                                                                         *)
(* The React state of App, the two refs, chrome.storage.local and every    *)
(* async handler of App are modelled.  A handler is a process of `proc`:   *)
(* one action runs the code between two awaits.  The effect of a storage   *)
(* call happens when the call is issued (the value a read returns is kept  *)
(* in a local of the process), the outcome of a network call or of a page  *)
(* extraction is chosen when the handler resumes.                          *)
(***************************************************************************)
EXTENDS Integers, Sequences, FiniteSets, Bags, TLC

(* ----------------------------- bounds ---------------------------------- *)
\* session ids the backend hands out over a run
MaxSessions == 1
\* detections (detectQuestionForTab calls) awaiting their page extraction
MaxInFlight == 2
\* getActiveTab queries of checkActiveTab awaiting their answer
MaxTabChecks == 1
\* longest transcript the panel holds
MaxTranscript == 4
\* the count of identical POST /questions calls saturates here
RegCap == 2

(* ----------------------------- values ---------------------------------- *)
\* JS null / undefined
NULL == [null |-> TRUE]

\* a missing (undefined) string property of a JS object
NONE == ""

Truthy(s) == s # NONE

IsSpace(c) == c \in {" ", "\t", "\n"}

RECURSIVE TrimStart(_)
TrimStart(s) == IF s # <<>> /\ IsSpace(Head(s)) THEN TrimStart(Tail(s)) ELSE s

RECURSIVE TrimEnd(_)
TrimEnd(s) ==
  IF s # <<>> /\ IsSpace(s[Len(s)]) THEN TrimEnd(SubSeq(s, 1, Len(s) - 1)) ELSE s

\* a trim that trims nothing
Trim_Nothing(s) == s

\* String.prototype.trim on a string held as a sequence of characters
Trim(s) == TrimEnd(TrimStart(s))

DigitValue(c) ==
  CASE c = "0" -> 0 [] c = "1" -> 1 [] c = "2" -> 2 [] c = "3" -> 3 [] c = "4" -> 4
    [] c = "5" -> 5 [] c = "6" -> 6 [] c = "7" -> 7 [] c = "8" -> 8 [] c = "9" -> 9

RECURSIVE Number(_)
\* Number("42") of a string of decimal digits
Number(ds) ==
  IF ds = <<>> THEN 0
  ELSE 10 * Number(SubSeq(ds, 1, Len(ds) - 1)) + DigitValue(ds[Len(ds)])

\* `LeetCode Question #${questionNumber}`
DefaultTitle(ds) == <<"LeetCode Question #">> \o ds

(* ------------------------------ urls ----------------------------------- *)
\* urls are held parsed: scheme, host and path segments, in lower case
LcUrl == [scheme |-> "https", host |-> "leetcode.com", path |-> <<"problems", "two-sum">>]
ListUrl == [scheme |-> "https", host |-> "leetcode.com", path |-> <<"problemset">>]

Urls == {LcUrl, ListUrl}

\* /https?:\/\/leetcode\.com\/problems\//i.test(url), false for a non-string
IsLeetCodeQuestionUrl(url) ==
  /\ url # NULL
  /\ url.scheme \in {"http", "https"}
  /\ url.host = "leetcode.com"
  /\ Len(url.path) >= 2
  /\ url.path[1] = "problems"

\* the tabs chrome.tabs.query({active: true, currentWindow: true}) may answer with
ActiveTabs ==
  { [id |-> 1, url |-> LcUrl, active |-> TRUE],
    [id |-> 2, url |-> ListUrl, active |-> TRUE] }

\* tabs in the background, or of another window
BackgroundTabs ==
  { [id |-> 3, url |-> LcUrl, active |-> FALSE],
    [id |-> 4, url |-> ListUrl, active |-> FALSE] }

\* what chrome.tabs.onUpdated hands over: any tab of the browser
Tabs == ActiveTabs \cup BackgroundTabs

(* ------------------------- outcomes of awaits -------------------------- *)
\* extractQuestionFromTab: the page's answer, or a rejected executeScript
PageInfos ==
  { [ok |-> FALSE, questionNumber |-> <<>>, title |-> <<>>],
    [ok |-> TRUE, questionNumber |-> <<"1", "7">>, title |-> <<"Two Sum">>],
    [ok |-> TRUE, questionNumber |-> <<"4", "2">>, title |-> <<"Trapping Rain Water">>],
    [ok |-> TRUE, questionNumber |-> <<"4", "2">>, title |-> <<>>] }

Throws == [throws |-> TRUE]

Extractions == PageInfos \cup {Throws}

\* GET /whoami: a failure, a body without a messages array, or a transcript
ServerTurns ==
  << [role |-> "user", content |-> "q", temp |-> FALSE],
     [role |-> "assistant", content |-> "a", temp |-> FALSE] >>

WhoamiOutcomes ==
  { [ok |-> FALSE, hasMessages |-> FALSE, messages |-> <<>>],
    [ok |-> TRUE, hasMessages |-> FALSE, messages |-> <<>>],
    [ok |-> TRUE, hasMessages |-> TRUE, messages |-> <<>>],
    [ok |-> TRUE, hasMessages |-> TRUE, messages |-> ServerTurns] }

SessionIds == <<"s1", "s2", "s3">>

\* POST /create_session: failure, or a body with or without session_id / auth_token
CreateOutcomes(sid) ==
  { [ok |-> FALSE, session_id |-> NONE, auth_token |-> NONE],
    [ok |-> TRUE, session_id |-> sid, auth_token |-> NONE],
    [ok |-> TRUE, session_id |-> NONE, auth_token |-> "tok"],
    [ok |-> TRUE, session_id |-> sid, auth_token |-> "tok"] }

\* what chrome.storage.local may hold under lcAssistantSession when the panel opens
StoredSessions ==
  { NULL,
    [sessionId |-> "s0", username |-> <<"a">>, authToken |-> "tok"],
    [sessionId |-> "s0", username |-> <<"a">>, authToken |-> NONE] }

\* what the user may type into the username field and the chat box
Typed == {<<" ">>, <<" ", "a">>}

(* ------------------------------ state ---------------------------------- *)
VARIABLES
  session, username, question, pendingQuestion, messages, chatInput,
  busy, isSending, status, refreshingQuestion,   \* useState of App
  questionRef, lastTabUrlRef,                    \* useRef of App
  storage,                                       \* chrome.storage.local
  proc,                                          \* the async handlers in flight
  detecting,                                     \* detectQuestionForTab calls in flight
  tabChecks,                                     \* checkActiveTab queries in flight
  wire,                                          \* the request last sent to the backend
  registrations,                                 \* POST /questions calls, counted
  nextSession,                                   \* session ids handed out so far
  staleApplied,                                  \* a detection overtaken by a newer one was applied
  md,                                            \* the content handed to an assistant Bubble
  html,                                          \* what the Bubble puts into innerHTML
  destroyed,                                     \* the sessionIds that reset or reload have destroyed
  registered                                     \* the pairs the backend has registered with success

uiVars == <<session, username, question, pendingQuestion, messages, chatInput,
            busy, isSending, status, refreshingQuestion>>
refVars == <<questionRef, lastTabUrlRef>>
envVars == <<storage, wire, registrations, nextSession>>
procVars == <<proc, detecting, tabChecks, staleApplied>>
mdVars == <<md, html>>
vars == <<uiVars, refVars, envVars, procVars, mdVars, destroyed, registered>>

\* the five async handlers, and the polling effect of lines 500-537: "idle"
\* while its listeners and its timer are installed, "done" after its cleanup
Procs == {"boot", "create", "reset", "send", "reload", "poll"}

IdleProc ==
  [ pc |-> "idle", sess |-> NULL, name |-> <<>>, tq |-> NULL, latest |-> NULL,
    tab |-> NULL, phase |-> "", initMap |-> {}, qn |-> 0, qt |-> <<>>, err |-> "" ]

Finished(pr) == [IdleProc EXCEPT !.pc = "done"]

Resting(p) == proc[p].pc \in {"idle", "done"}

\* a cleanup that cancels nothing
Cancelled_Never == FALSE

\* `cancelled` of the polling effect (lines 501, 532)
Cancelled == proc["poll"].pc = "done"

(* ------------------------------ helpers -------------------------------- *)
\* buildAuthHeaders: the two headers, or none when an identifier is missing
BuildAuthHeaders(s) ==
  IF s = NULL \/ ~Truthy(s.sessionId) \/ ~Truthy(s.authToken) THEN {}
  ELSE {<<"X-Session-ID", s.sessionId>>, <<"X-Session-Auth", s.authToken>>}

Request(ep, headers, q) == [endpoint |-> ep, headers |-> headers, question |-> q]

\* fetch(...): the request goes on the wire
Sent(request) == request

\* registrations counts, for the sessions that are alive, the POST /questions
\* calls that the backend did not reject
AddRegistration(b, e) ==
  IF CopiesIn(e, b) >= RegCap THEN b ELSE b (+) SetToBag({e})

\* a call the backend rejected registered nothing
Rejected(b, e) == b (-) SetToBag({e})

Forget(b, sid) ==
  LET keep == {e \in BagToSet(b) : e[1] # sid}
  IN [e \in keep |-> b[e]]

\* the question {status: "ready", number, title} bootstrap builds from a page
NormalizedQuestion(pageInfo) ==
  [ status |-> "ready",
    number |-> Number(pageInfo.questionNumber),
    title |-> IF pageInfo.title # <<>> THEN pageInfo.title
              ELSE DefaultTitle(pageInfo.questionNumber) ]

\* the {number, title} detectQuestionForTab builds from a page
NormalizedPending(pageInfo) ==
  [ number |-> Number(pageInfo.questionNumber),
    title |-> IF pageInfo.title # <<>> THEN pageInfo.title
              ELSE DefaultTitle(pageInfo.questionNumber) ]

\* hydrateMessages' mapping of the fetched turns
HydratedTurns(ms) == [i \in DOMAIN ms |-> [role |-> ms[i].role, content |-> ms[i].content, temp |-> FALSE]]

\* prev.filter((m) => !m.temp)
RECURSIVE WithoutTemp(_)
WithoutTemp(ms) ==
  IF ms = <<>> THEN <<>>
  ELSE IF Head(ms).temp THEN WithoutTemp(Tail(ms))
  ELSE <<Head(ms)>> \o WithoutTemp(Tail(ms))

\* the sessionId's sub-map of the initialized map, as the set of its question numbers
SessionMap(initMap, sid) == {e[2] : e \in {x \in initMap : x[1] = sid}}

\* const { [sessionId]: _removed, ...rest } = initMap
WithoutSession(initMap, sid) == {x \in initMap : x[1] # sid}

(* ------------------------------- Init ---------------------------------- *)
BootProc(stored) == [IdleProc EXCEPT !.pc = "b_read", !.sess = stored]

PanelInit ==
  /\ session = NULL
  /\ username = <<>>
  /\ question = [status |-> "checking"]
  /\ pendingQuestion = NULL
  /\ messages = <<>>
  /\ chatInput = <<>>
  /\ busy = FALSE
  /\ isSending = FALSE
  /\ status = ""
  /\ refreshingQuestion = FALSE
  /\ questionRef = [status |-> "checking"]
  /\ lastTabUrlRef = NULL
  /\ \E stored \in StoredSessions :
       /\ storage = [session |-> stored, initialized |-> {}]
       /\ proc = [p \in Procs |-> IF p = "boot" THEN BootProc(stored) ELSE IdleProc]
  /\ detecting = <<>>
  /\ tabChecks = 0
  /\ wire = NULL
  /\ registrations = EmptyBag
  /\ nextSession = 0
  /\ staleApplied = FALSE
  /\ destroyed = {}
  /\ registered = {}

Init ==
  /\ PanelInit
  /\ md = <<>>
  /\ html = [rendered |-> FALSE, out |-> <<>>]

(* ----------------- continuations shared by the handlers ---------------- *)
\* Each of these sets proc, status, busy, wire and refreshingQuestion.

\* setQuestion from an async continuation: the effect that copies the
\* question into questionRef (lines 203-205) runs after the commit, so the
\* ref is left one question behind until SyncQuestionRef
SetQuestion(q) ==
  /\ question' = q
  /\ questionRef' = question

\* createSessionWithName up to its fetch (lines 340-348)
StartCreate(p, pr, name, target) ==
  /\ busy' = TRUE
  /\ status' = "Creating session..."
  /\ wire' = Sent(Request("create_session", {}, 0))
  /\ proc' = [proc EXCEPT ![p] = [pr EXCEPT !.pc = "c_post", !.name = name, !.tq = target]]

\* createSessionWithName's end (lines 371-377), and handleReloadForNewQuestion's
\* finally (lines 577-579) when the reload made the call
EndCreate(p, pr, st) ==
  /\ status' = st
  /\ busy' = FALSE
  /\ refreshingQuestion' = IF p = "reload" THEN FALSE ELSE refreshingQuestion
  /\ proc' = [proc EXCEPT ![p] = Finished(pr)]
  /\ UNCHANGED wire

\* what follows a bootstrap that returned `latest` (null or the ready question):
\* nothing on mount; lines 572-579 in handleReloadForNewQuestion
BootstrapReturn(p, pr, latest, st) ==
  IF p = "reload" /\ pr.name # <<>>
  THEN /\ StartCreate(p, [pr EXCEPT !.latest = latest, !.phase = "create"], pr.name,
                      IF latest # NULL THEN latest ELSE pr.tq)
       /\ UNCHANGED refreshingQuestion
  ELSE /\ proc' = [proc EXCEPT ![p] = Finished([pr EXCEPT !.latest = latest])]
       /\ status' = st
       /\ refreshingQuestion' = IF p = "reload" THEN FALSE ELSE refreshingQuestion
       /\ UNCHANGED <<busy, wire>>

\* an initializeForQuestion whose exception escapes to its caller's caller
AfterInit_Escapes(p, pr, st) ==
  /\ proc' = [proc EXCEPT ![p] = Finished(pr)]
  /\ UNCHANGED <<status, busy, wire, refreshingQuestion>>

\* initializeForQuestion ends with the status st (lines 264-268): its caller
\* resumes from its await in a later step
AfterInit(p, pr, st) ==
  /\ status' = st
  /\ proc' = [proc EXCEPT ![p] = [pr EXCEPT !.pc = "i_ret"]]
  /\ UNCHANGED <<busy, wire, refreshingQuestion>>

\* initializeForQuestion up to ensureQuestionInitialized's storage read
\* (lines 256-262, 272, and the catch of lines 265-268)
StartInit(p, pr, sess, qn, qt) ==
  IF ~Truthy(sess.authToken)
  THEN AfterInit(p, pr, "Missing session auth token. Reset the session.")
  ELSE /\ proc' = [proc EXCEPT ![p] =
                    [pr EXCEPT !.pc = "i_read", !.sess = sess, !.qn = qn, !.qt = qt,
                               !.initMap = storage.initialized]]
       /\ status' = "Syncing question with backend..."
       /\ UNCHANGED <<busy, wire, refreshingQuestion>>

\* hydrateMessages up to its fetch (lines 306-315)
StartHydrate(p, pr) ==
  /\ wire' = Sent(Request("whoami", BuildAuthHeaders(pr.sess), 0))
  /\ proc' = [proc EXCEPT ![p] = [pr EXCEPT !.pc = "i_whoami"]]

(* ------------------------------ bootstrap ------------------------------ *)
\* a bootstrap that asks a stored session for its identifier only
ValidStored_IdOnly(stored) == stored # NULL /\ Truthy(stored.sessionId)

ValidStored(stored) ==
  stored # NULL /\ Truthy(stored.sessionId) /\ Truthy(stored.authToken)

\* bootstrap resumes with the stored session (lines 214-223)
BootstrapStored(p) ==
  LET pr == proc[p]
      stored == pr.sess
  IN /\ pr.pc = "b_read"
     /\ IF ValidStored(stored)
        THEN /\ session' = stored
             /\ username' = stored.username
             /\ proc' = [proc EXCEPT ![p].pc = "b_tab"]
             /\ UNCHANGED storage
        ELSE IF stored # NULL
        THEN \* a legacy session without auth token is removed from storage
             /\ storage' = [storage EXCEPT !.session = NULL]
             /\ proc' = [proc EXCEPT ![p].pc = "b_removed"]
             /\ UNCHANGED <<session, username>>
        ELSE /\ proc' = [proc EXCEPT ![p].pc = "b_tab"]
             /\ UNCHANGED <<session, username, storage>>
     /\ UNCHANGED <<question, pendingQuestion, messages, chatInput, busy, isSending,
                    status, refreshingQuestion, refVars, wire, registrations,
                    nextSession, detecting, tabChecks, staleApplied, mdVars, destroyed, registered>>

\* removeStorage is done, getActiveTab is called (lines 220-223)
BootstrapRemoved(p) ==
  /\ proc[p].pc = "b_removed"
  /\ proc' = [proc EXCEPT ![p].pc = "b_tab"]
  /\ UNCHANGED <<uiVars, refVars, envVars, detecting, tabChecks, staleApplied, mdVars, destroyed, registered>>

\* bootstrap resumes with the active tab (lines 223-235)
BootstrapTab(p, tab) ==
  LET pr == proc[p]
  IN /\ pr.pc = "b_tab"
     /\ IF tab = NULL
        THEN /\ SetQuestion([status |-> "error", message |-> "No active tab found."])
             /\ BootstrapReturn(p, pr, NULL, status)
        ELSE IF ~IsLeetCodeQuestionUrl(tab.url)
        THEN /\ SetQuestion([status |-> "notLeetCode"])
             /\ BootstrapReturn(p, pr, NULL, status)
        ELSE /\ SetQuestion([status |-> "loading"])
             /\ proc' = [proc EXCEPT ![p] = [pr EXCEPT !.pc = "b_extract", !.tab = tab]]
             /\ UNCHANGED <<status, busy, wire, refreshingQuestion>>
     /\ UNCHANGED <<session, username, pendingQuestion, messages, chatInput, isSending,
                    lastTabUrlRef, storage, registrations, nextSession,
                    detecting, tabChecks, staleApplied, mdVars, destroyed, registered>>

\* bootstrap resumes with the page's answer (lines 235-253); a rejected
\* executeScript leaves bootstrap by an exception nobody in bootstrap catches
BootstrapExtracted(p, pageInfo) ==
  LET pr == proc[p]
  IN /\ pr.pc = "b_extract"
     /\ IF pageInfo = Throws
        THEN /\ proc' = [proc EXCEPT ![p] = Finished(pr)]
             /\ refreshingQuestion' = IF p = "reload" THEN FALSE ELSE refreshingQuestion
             /\ UNCHANGED <<question, questionRef, lastTabUrlRef, status, busy, wire>>
        ELSE IF ~pageInfo.ok \/ pageInfo.questionNumber = <<>>
        THEN /\ SetQuestion([status |-> "error", message |-> "Unable to read the page"])
             /\ BootstrapReturn(p, pr, NULL, status)
             /\ UNCHANGED lastTabUrlRef
        ELSE LET normalized == NormalizedQuestion(pageInfo)
                 withLatest == [pr EXCEPT !.latest = normalized]
             IN /\ SetQuestion(normalized)
                /\ lastTabUrlRef' = pr.tab.url
                /\ IF pr.sess # NULL
                   THEN StartInit(p, withLatest, pr.sess, normalized.number, normalized.title)
                   ELSE BootstrapReturn(p, withLatest, normalized, status)
     /\ UNCHANGED <<session, username, pendingQuestion, messages, chatInput, isSending,
                    storage, registrations, nextSession, detecting, tabChecks, staleApplied, mdVars, destroyed, registered>>

(* --------------------------- initialization ---------------------------- *)
\* ensureQuestionInitialized resumes with the initialized map (lines 273-291)
InitRead(p) ==
  LET pr == proc[p]
      sid == pr.sess.sessionId
  IN /\ pr.pc = "i_read"
     /\ IF pr.qn \in SessionMap(pr.initMap, sid)
        THEN /\ StartHydrate(p, pr)
             /\ UNCHANGED registrations
        ELSE /\ wire' = Sent(Request("questions", BuildAuthHeaders(pr.sess), pr.qn))
             /\ registrations' = AddRegistration(registrations, <<sid, pr.qn>>)
             /\ proc' = [proc EXCEPT ![p].pc = "i_post"]
     /\ UNCHANGED <<uiVars, refVars, storage, nextSession, detecting, tabChecks, staleApplied, mdVars, destroyed, registered>>

\* ensureQuestionInitialized resumes with the backend's answer (lines 293-303)
InitPosted(p, ok) ==
  LET pr == proc[p]
      sid == pr.sess.sessionId
  IN /\ pr.pc = "i_post"
     /\ IF ok
        THEN /\ storage' = [storage EXCEPT !.initialized = pr.initMap \cup {<<sid, pr.qn>>}]
             /\ registered' = registered \cup {<<sid, pr.qn>>}
             /\ proc' = [proc EXCEPT ![p].pc = "i_write"]
             /\ UNCHANGED <<status, busy, wire, refreshingQuestion, registrations>>
        ELSE /\ AfterInit(p, pr, "Backend rejected the question.")
             /\ registrations' = Rejected(registrations, <<sid, pr.qn>>)
             /\ UNCHANGED <<storage, registered>>
     /\ UNCHANGED <<session, username, question, pendingQuestion, messages, chatInput,
                    isSending, refVars, nextSession, detecting, tabChecks, staleApplied, mdVars, destroyed>>

\* the map is written, hydrateMessages is called (lines 298-303, 263)
InitWritten(p) ==
  LET pr == proc[p]
  IN /\ pr.pc = "i_write"
     /\ StartHydrate(p, pr)
     /\ UNCHANGED <<uiVars, refVars, storage, registrations, nextSession,
                    detecting, tabChecks, staleApplied, mdVars, destroyed, registered>>

\* hydrateMessages resumes with the transcript (lines 317-329, 264-268)
InitHydrated(p, who) ==
  LET pr == proc[p]
  IN /\ pr.pc = "i_whoami"
     /\ IF ~who.ok
        THEN /\ AfterInit(p, pr, "Could not load session messages.")
             /\ UNCHANGED messages
        ELSE /\ messages' = IF who.hasMessages THEN HydratedTurns(who.messages) ELSE messages
             /\ AfterInit(p, pr, "")
     /\ UNCHANGED <<session, username, question, pendingQuestion, chatInput, isSending,
                    refVars, storage, registrations, nextSession,
                    detecting, tabChecks, staleApplied, mdVars, destroyed, registered>>

\* the caller of initializeForQuestion resumes: bootstrap returns the question
\* (lines 250-253), createSessionWithName ends (lines 368-377)
InitReturned(p) ==
  LET pr == proc[p]
  IN /\ pr.pc = "i_ret"
     /\ IF pr.phase = "create"
        THEN EndCreate(p, pr, "Session ready.")
        ELSE BootstrapReturn(p, pr, pr.latest, status)
     /\ UNCHANGED <<session, username, question, pendingQuestion, messages, chatInput,
                    isSending, refVars, storage, registrations, nextSession,
                    detecting, tabChecks, staleApplied, mdVars, destroyed, registered>>

(* ------------------------------ the panel ------------------------------ *)
\* React runs the effect of lines 203-205 right after the commit:
\* a click, a keystroke, a tab event or a timer finds it done; only the
\* continuation of an await whose answer was on its way can run before it
EffectsFlushed == questionRef = question

\* the session block, the chat area and the reload prompt are rendered only
\* while the question is ready (lines 601-621, 737-757)
PanelShown == ~Cancelled /\ question.status = "ready"

(* --------------------------- create session ---------------------------- *)
\* the create form is submitted (lines 332-338); the form is shown without a
\* session, its button is disabled while busy and its field is `required`
HandleCreateSession ==
  /\ EffectsFlushed
  /\ PanelShown /\ session = NULL /\ ~busy /\ username # <<>>
  /\ Resting("create")
  /\ LET name == Trim(username)
     IN IF name = <<>>
        THEN \* the handler returns at once
             /\ proc' = [proc EXCEPT !["create"] = [IdleProc EXCEPT !.pc = "done", !.phase = "returned"]]
             /\ UNCHANGED <<busy, status, wire>>
        ELSE StartCreate("create", [IdleProc EXCEPT !.phase = "create"], name, question)
  /\ UNCHANGED <<session, username, question, pendingQuestion, messages, chatInput,
                 isSending, refreshingQuestion, refVars, storage, registrations,
                 nextSession, detecting, tabChecks, staleApplied, mdVars, destroyed, registered>>

\* the backend hands out a fresh session id while the bound allows it
FreshSessionId == SessionIds[nextSession + 1]

CreateAnswers ==
  IF nextSession < MaxSessions THEN CreateOutcomes(FreshSessionId)
  ELSE {r \in CreateOutcomes(NONE) : ~Truthy(r.session_id)}

\* a createSessionWithName that stores the session before it looks at the token
CreatePosted_StoresFirst(p, data) ==
  LET pr == proc[p]
      newSession == [sessionId |-> data.session_id, username |-> pr.name,
                     authToken |-> data.auth_token]
  IN /\ pr.pc = "c_post"
     /\ data \in CreateAnswers
     /\ IF ~data.ok
        THEN /\ EndCreate(p, pr, "Unable to create session.")
             /\ UNCHANGED <<session, storage, nextSession>>
        ELSE /\ session' = newSession
             /\ storage' = [storage EXCEPT !.session = newSession]
             /\ nextSession' = IF Truthy(data.session_id) THEN nextSession + 1 ELSE nextSession
             /\ IF ~Truthy(data.auth_token)
                THEN EndCreate(p, pr, "Server did not return an auth token.")
                ELSE /\ proc' = [proc EXCEPT ![p] = [pr EXCEPT !.pc = "c_write", !.sess = newSession]]
                     /\ UNCHANGED <<status, busy, wire, refreshingQuestion>>
     /\ UNCHANGED <<username, question, pendingQuestion, messages, chatInput, isSending,
                    refVars, registrations, detecting, tabChecks, staleApplied, mdVars, destroyed, registered>>

\* createSessionWithName resumes with the backend's answer (lines 349-364)
CreatePosted(p, data) ==
  LET pr == proc[p]
      newSession == [sessionId |-> data.session_id, username |-> pr.name,
                     authToken |-> data.auth_token]
  IN /\ pr.pc = "c_post"
     /\ data \in CreateAnswers
     /\ IF ~data.ok
        THEN /\ EndCreate(p, pr, "Unable to create session.")
             /\ UNCHANGED <<session, storage, nextSession>>
        ELSE IF ~Truthy(data.auth_token)
        THEN /\ EndCreate(p, pr, "Server did not return an auth token.")
             /\ nextSession' = IF Truthy(data.session_id) THEN nextSession + 1 ELSE nextSession
             /\ UNCHANGED <<session, storage>>
        ELSE /\ session' = newSession
             /\ storage' = [storage EXCEPT !.session = newSession]
             /\ nextSession' = IF Truthy(data.session_id) THEN nextSession + 1 ELSE nextSession
             /\ proc' = [proc EXCEPT ![p] = [pr EXCEPT !.pc = "c_write", !.sess = newSession]]
             /\ UNCHANGED <<status, busy, wire, refreshingQuestion>>
     /\ UNCHANGED <<username, question, pendingQuestion, messages, chatInput, isSending,
                    refVars, registrations, detecting, tabChecks, staleApplied, mdVars, destroyed, registered>>

\* the session is stored; the transcript is cleared and the target question,
\* if ready, is initialized (lines 364-371)
CreateWritten(p) ==
  LET pr == proc[p]
  IN /\ pr.pc = "c_write"
     /\ messages' = <<>>
     /\ IF pr.tq.status = "ready"
        THEN StartInit(p, pr, pr.sess, pr.tq.number, pr.tq.title)
        ELSE EndCreate(p, pr, "Session ready.")
     /\ UNCHANGED <<session, username, question, pendingQuestion, chatInput, isSending,
                    refVars, storage, registrations, nextSession,
                    detecting, tabChecks, staleApplied, mdVars, destroyed, registered>>

(* ------------------- reset and reload-for-new-question ----------------- *)
\* Reset is clicked (lines 430-442); the button is shown with a session and
\* disabled while busy
ResetSession ==
  /\ EffectsFlushed
  /\ PanelShown /\ session # NULL /\ ~busy
  /\ Resting("reset")
  /\ busy' = TRUE
  /\ status' = "Resetting session..."
  /\ wire' = Sent(Request("delete_session", BuildAuthHeaders(session), 0))
  /\ proc' = [proc EXCEPT !["reset"] = [IdleProc EXCEPT !.pc = "r_delete", !.sess = session]]
  /\ UNCHANGED <<session, username, question, pendingQuestion, messages, chatInput,
                 isSending, refreshingQuestion, refVars, storage, registrations,
                 nextSession, detecting, tabChecks, staleApplied, mdVars, destroyed, registered>>

\* "Reload for this question" is clicked (lines 539-553, or 572 without a
\* session); a click is a discrete event, whose effects React runs at once
HandleReloadForNewQuestion ==
  /\ EffectsFlushed
  /\ PanelShown /\ pendingQuestion # NULL
  /\ ~(refreshingQuestion \/ busy \/ isSending)
  /\ Resting("reload")
  /\ refreshingQuestion' = TRUE
  /\ pendingQuestion' = NULL
  /\ question' = [status |-> "loading"]
  /\ questionRef' = [status |-> "loading"]
  /\ LET pr == [IdleProc EXCEPT !.sess = session, !.name = Trim(username), !.tq = question,
                                !.phase = "bootstrap"]
     IN IF session # NULL
        THEN /\ wire' = Sent(Request("delete_session", BuildAuthHeaders(session), 0))
             /\ proc' = [proc EXCEPT !["reload"] = [pr EXCEPT !.pc = "r_delete"]]
        ELSE /\ proc' = [proc EXCEPT !["reload"] =
                          [pr EXCEPT !.pc = "b_read", !.sess = storage.session]]
             /\ UNCHANGED wire
  /\ UNCHANGED <<session, username, messages, chatInput, busy, isSending, status,
                 lastTabUrlRef, storage, registrations, nextSession,
                 detecting, tabChecks, staleApplied, mdVars, destroyed, registered>>

\* the handler resumes with the answer to /delete_session and removes the
\* stored session (lines 444-454, 554-561)
DeleteAnswered(p, ok) ==
  LET pr == proc[p]
  IN /\ pr.pc = "r_delete"
     /\ storage' = [storage EXCEPT !.session = NULL]
     /\ proc' = [proc EXCEPT ![p] =
                  [pr EXCEPT !.pc = "r_removed",
                             !.err = IF ok \/ p = "reload" THEN "" ELSE "Failed to delete session."]]
     /\ registrations' = Forget(registrations, pr.sess.sessionId)
     /\ UNCHANGED <<uiVars, refVars, wire, nextSession, detecting, tabChecks, staleApplied, mdVars, destroyed, registered>>

\* the stored session is removed, the initialized map is read (lines 455, 562)
SessionRemoved(p) ==
  /\ proc[p].pc = "r_removed"
  /\ proc' = [proc EXCEPT ![p] = [@ EXCEPT !.pc = "r_read", !.initMap = storage.initialized]]
  /\ UNCHANGED <<uiVars, refVars, envVars, detecting, tabChecks, staleApplied, mdVars, destroyed, registered>>

\* the local state is cleared (lines 461-464, 567-568); the reload goes on
\* to bootstrap (line 572)
ClearLocal(p, pr) ==
  /\ session' = NULL
  /\ messages' = <<>>
  /\ destroyed' = IF Truthy(pr.sess.sessionId) THEN destroyed \cup {pr.sess.sessionId}
                  ELSE destroyed
  /\ IF p = "reset"
     THEN /\ busy' = FALSE
          /\ status' = pr.err
          /\ proc' = [proc EXCEPT ![p] = Finished(pr)]
     ELSE /\ proc' = [proc EXCEPT ![p] =
                       [pr EXCEPT !.pc = "b_read", !.sess = storage'.session, !.initMap = {}]]
          /\ UNCHANGED <<busy, status>>

\* the handler resumes with the initialized map (lines 455-459, 562-566)
MapRead(p) ==
  LET pr == proc[p]
      sid == pr.sess.sessionId
  IN /\ pr.pc = "r_read"
     /\ IF Truthy(sid) /\ SessionMap(pr.initMap, sid) # {}
        THEN /\ storage' = [storage EXCEPT !.initialized = WithoutSession(pr.initMap, sid)]
             /\ proc' = [proc EXCEPT ![p].pc = "r_write"]
             /\ UNCHANGED <<session, messages, busy, status, destroyed>>
        ELSE /\ UNCHANGED storage
             /\ ClearLocal(p, pr)
     /\ UNCHANGED <<username, question, pendingQuestion, chatInput, isSending,
                    refreshingQuestion, refVars, wire, registrations, nextSession,
                    detecting, tabChecks, staleApplied, mdVars, registered>>

\* the map is written back without the session's entry (lines 458-464, 565-568)
MapWritten(p) ==
  LET pr == proc[p]
  IN /\ pr.pc = "r_write"
     /\ UNCHANGED storage
     /\ ClearLocal(p, pr)
     /\ UNCHANGED <<username, question, pendingQuestion, chatInput, isSending,
                    refreshingQuestion, refVars, wire, registrations, nextSession,
                    detecting, tabChecks, staleApplied, mdVars, registered>>

(* -------------------------------- chat --------------------------------- *)
TempMessage == [role |-> "assistant", content |-> "Thinking...", temp |-> TRUE]

ErrorTurn(msg) == [role |-> "assistant", content |-> "Error: " \o msg, temp |-> FALSE]

\* the chat form is submitted (lines 380-407)
HandleSendMessage ==
  /\ EffectsFlushed
  /\ PanelShown
  /\ Len(messages) + 2 <= MaxTranscript
  /\ IF session = NULL \/ question.status # "ready" \/ isSending
     THEN UNCHANGED <<chatInput, isSending, messages, status, wire, proc>>
     ELSE IF ~Truthy(session.authToken)
     THEN /\ status' = "Session auth token missing. Reset the session."
          /\ UNCHANGED <<chatInput, isSending, messages, wire, proc>>
     ELSE LET text == Trim(chatInput)
          IN IF text = <<>>
             THEN UNCHANGED <<chatInput, isSending, messages, status, wire, proc>>
             ELSE /\ chatInput' = <<>>
                  /\ isSending' = TRUE
                  /\ messages' = messages \o
                       <<[role |-> "user", content |-> "q", temp |-> FALSE], TempMessage>>
                  /\ status' = "Sending message..."
                  /\ wire' = Sent(Request("chat", BuildAuthHeaders(session), 0))
                  /\ proc' = [proc EXCEPT !["send"] =
                               [IdleProc EXCEPT !.pc = "s_post", !.sess = session]]
  /\ UNCHANGED <<session, username, question, pendingQuestion, busy, refreshingQuestion,
                 refVars, storage, registrations, nextSession,
                 detecting, tabChecks, staleApplied, mdVars, destroyed, registered>>

\* a catch without the finally: the sending flag stays set
SendFailed_KeepsFlag(pr, msg) ==
  /\ messages' = Append(WithoutTemp(messages), ErrorTurn(msg))
  /\ status' = msg
  /\ UNCHANGED isSending
  /\ proc' = [proc EXCEPT !["send"] = Finished(pr)]
  /\ UNCHANGED wire

\* the catch and the finally of handleSendMessage (lines 418-427)
SendFailed(pr, msg) ==
  /\ messages' = Append(WithoutTemp(messages), ErrorTurn(msg))
  /\ status' = msg
  /\ isSending' = FALSE
  /\ proc' = [proc EXCEPT !["send"] = Finished(pr)]
  /\ UNCHANGED wire

\* handleSendMessage resumes with the answer to /chat (lines 409-416)
SendPosted(ok) ==
  LET pr == proc["send"]
  IN /\ pr.pc = "s_post"
     /\ IF ok
        THEN /\ wire' = Sent(Request("whoami", BuildAuthHeaders(pr.sess), 0))
             /\ proc' = [proc EXCEPT !["send"].pc = "s_whoami"]
             /\ UNCHANGED <<messages, status, isSending>>
        ELSE SendFailed(pr, "Chat request failed.")
     /\ UNCHANGED <<session, username, question, pendingQuestion, chatInput, busy,
                    refreshingQuestion, refVars, storage, registrations, nextSession,
                    detecting, tabChecks, staleApplied, mdVars, destroyed, registered>>

\* handleSendMessage resumes with the refreshed transcript (lines 416-427,
\* hydrateMessages 317-329)
SendHydrated(who) ==
  LET pr == proc["send"]
  IN /\ pr.pc = "s_whoami"
     /\ IF ~who.ok
        THEN SendFailed(pr, "Could not load session messages.")
        ELSE /\ messages' = IF who.hasMessages THEN HydratedTurns(who.messages) ELSE messages
             /\ status' = ""
             /\ isSending' = FALSE
             /\ proc' = [proc EXCEPT !["send"] = Finished(pr)]
             /\ UNCHANGED wire
     /\ UNCHANGED <<session, username, question, pendingQuestion, chatInput, busy,
                    refreshingQuestion, refVars, storage, registrations, nextSession,
                    detecting, tabChecks, staleApplied, mdVars, destroyed, registered>>

(* ------------------------------- typing -------------------------------- *)
\* the username field's onChange (line 680); the field is disabled while busy
SetUsername(v) ==
  /\ EffectsFlushed
  /\ PanelShown /\ session = NULL /\ ~busy
  /\ username' = v
  /\ UNCHANGED <<session, question, pendingQuestion, messages, chatInput, busy, isSending,
                 status, refreshingQuestion, refVars, envVars, procVars, mdVars, destroyed, registered>>

\* the chat box's onChange (lines 710-711)
SetChatInput(v) ==
  /\ EffectsFlushed
  /\ PanelShown /\ session # NULL /\ ~isSending
  /\ chatInput' = v
  /\ UNCHANGED <<session, username, question, pendingQuestion, messages, busy, isSending,
                 status, refreshingQuestion, refVars, envVars, procVars, mdVars, destroyed, registered>>

(* ------------------------- background detection ------------------------ *)
\* every detection still in flight is now older than an applied one
Overtaken(ds) == [i \in DOMAIN ds |-> [ds[i] EXCEPT !.stale = TRUE]]

\* detectQuestionForTab up to its extraction (lines 468-475)
DetectQuestionForTab(tab) ==
  IF tab = NULL \/ ~IsLeetCodeQuestionUrl(tab.url)
  THEN /\ pendingQuestion' = NULL
       /\ detecting' = Overtaken(detecting)
  ELSE /\ Len(detecting) < MaxInFlight
       /\ detecting' = Append(detecting, [tab |-> tab, stale |-> FALSE])
       /\ UNCHANGED pendingQuestion

\* chrome.tabs.onUpdated with a new url or a completed load (lines 516-521)
HandleUpdated(tab) ==
  /\ ~Cancelled
  /\ EffectsFlushed
  /\ lastTabUrlRef' = tab.url
  /\ DetectQuestionForTab(tab)
  /\ UNCHANGED <<session, username, question, messages, chatInput, busy, isSending,
                 status, refreshingQuestion, questionRef, envVars, proc, tabChecks,
                 staleApplied, mdVars, destroyed, registered>>

\* the 2 s timer or chrome.tabs.onActivated asks for the active tab (lines 503-505)
CheckActiveTab ==
  /\ ~Cancelled
  /\ EffectsFlushed
  /\ tabChecks < MaxTabChecks
  /\ tabChecks' = tabChecks + 1
  /\ UNCHANGED <<uiVars, refVars, envVars, proc, detecting, staleApplied, mdVars, destroyed, registered>>

\* the active tab is known (lines 506-512)
ActiveTabKnown(tab) ==
  /\ tabChecks > 0
  /\ tabChecks' = tabChecks - 1
  /\ IF Cancelled
     THEN \* the answer is dropped (line 507)
          /\ proc' = [proc EXCEPT !["poll"].phase = "dropped"]
          /\ UNCHANGED <<lastTabUrlRef, pendingQuestion, detecting>>
     ELSE IF tab # NULL /\ tab.url # lastTabUrlRef
     THEN /\ lastTabUrlRef' = tab.url
          /\ DetectQuestionForTab(tab)
          /\ UNCHANGED proc
     ELSE UNCHANGED <<lastTabUrlRef, pendingQuestion, detecting, proc>>
  /\ UNCHANGED <<session, username, question, messages, chatInput, busy, isSending,
                 status, refreshingQuestion, questionRef, envVars, staleApplied, mdVars, destroyed, registered>>

\* the cleanup of the polling effect when App is unmounted (lines 531-536)
Cleanup ==
  /\ ~Cancelled
  /\ proc' = [proc EXCEPT !["poll"].pc = "done"]
  /\ UNCHANGED <<uiVars, refVars, envVars, detecting, tabChecks, staleApplied, mdVars, destroyed, registered>>

\* a setPendingQuestion that takes every detection
KeepOrReplace_Always(prev, normalized) == normalized

\* setPendingQuestion((prev) => prev?.number === normalized.number ? prev : normalized)
KeepOrReplace(prev, normalized) ==
  IF prev # NULL /\ prev.number = normalized.number THEN prev ELSE normalized

\* the pending question a detection leaves, given what it read (lines 481-494)
DetectedPending(current, prev, normalized) ==
  IF current = NULL \/ current.status # "ready" \/ current.number # normalized.number
  THEN KeepOrReplace(prev, normalized)
  ELSE NULL

RemoveAt(ds, i) == SubSeq(ds, 1, i - 1) \o SubSeq(ds, i + 1, Len(ds))

\* the i-th detection in flight resumes with the page's answer (lines 475-497)
DetectExtracted(i, pageInfo) ==
  /\ i \in DOMAIN detecting
  /\ IF pageInfo = Throws
     THEN /\ detecting' = RemoveAt(detecting, i)
          /\ UNCHANGED <<pendingQuestion, staleApplied>>
     ELSE /\ pendingQuestion' =
               IF ~pageInfo.ok \/ pageInfo.questionNumber = <<>> THEN NULL
               ELSE DetectedPending(questionRef, pendingQuestion, NormalizedPending(pageInfo))
          /\ staleApplied' = (staleApplied \/ detecting[i].stale)
          /\ detecting' = RemoveAt([j \in DOMAIN detecting |->
                              IF j < i THEN [detecting[j] EXCEPT !.stale = TRUE]
                              ELSE detecting[j]], i)
  /\ UNCHANGED <<session, username, question, messages, chatInput, busy, isSending,
                 status, refreshingQuestion, refVars, envVars, proc, tabChecks, mdVars, destroyed, registered>>

(* ------------------------------ React ---------------------------------- *)
\* useEffect(() => { questionRef.current = question }, [question]) (lines 203-205)
SyncQuestionRef ==
  /\ questionRef # question
  /\ questionRef' = question
  /\ UNCHANGED <<uiVars, lastTabUrlRef, envVars, procVars, mdVars, destroyed, registered>>

\* the panel is closed and opened again: App is mounted anew (lines 184-201,
\* 761-763) on the same chrome.storage.local; what was sent stays sent
Reopen ==
  /\ session' = NULL
  /\ username' = <<>>
  /\ question' = [status |-> "checking"]
  /\ pendingQuestion' = NULL
  /\ messages' = <<>>
  /\ chatInput' = <<>>
  /\ busy' = FALSE
  /\ isSending' = FALSE
  /\ status' = ""
  /\ refreshingQuestion' = FALSE
  /\ questionRef' = [status |-> "checking"]
  /\ lastTabUrlRef' = NULL
  /\ proc' = [p \in Procs |-> IF p = "boot" THEN BootProc(storage.session) ELSE IdleProc]
  /\ detecting' = <<>>
  /\ tabChecks' = 0
  /\ staleApplied' = FALSE
  /\ UNCHANGED <<envVars, mdVars, destroyed, registered>>

(* --------------------------- renderMarkdown ---------------------------- *)
\* A text is a sequence of tokens [k, v].  A token of kind "c" is the one
\* character v; the other kinds stand for the text a step of renderMarkdown
\* has produced, which no later pattern of renderMarkdown can match a part of:
\*   "ent"   the entity &v;          "tail"  the text v; (an entity less its &)
\*   "open"  the tag <v>             "close" the tag </v>
\*   "name"  the text v              "ph"    the marker @@CODEBLOCKv@@
\*   "href"  <a href="               "attrs" " target="_blank" rel="noopener noreferrer">
Ch(c) == [k |-> "c", v |-> c]
\* the grave accent, which a TLA+ string cannot hold, goes by its name
BT == "grave"
Ent(v) == [k |-> "ent", v |-> v]
Open(v) == [k |-> "open", v |-> v]
Close(v) == [k |-> "close", v |-> v]

\* a string given as the sequence of its characters, as a text
Chars(s) == [i \in DOMAIN s |-> Ch(s[i])]

IsCh(t, c) == t.k = "c" /\ t.v = c
\* \s
IsWs(t) == t.k = "c" /\ IsSpace(t.v)
\* \d
IsDigit(t) == t.k = "c" /\ t.v \in {"0", "1", "2", "3", "4", "5", "6", "7", "8", "9"}
IsNewline(t) == IsCh(t, "\n")

Least(S) == CHOOSE x \in S : \A y \in S : x <= y
Greatest(S) == CHOOSE x \in S : \A y \in S : y <= x

\* the text from position i to position j, empty when j < i
Slice(s, i, j) == IF j < i THEN <<>> ELSE SubSeq(s, i, j)

\* the first position from i on that is not white space, Len(s) + 1 if none
SkipWs(s, i) == Least({j \in i..Len(s) : ~IsWs(s[j])} \cup {Len(s) + 1})

\* the position of the newline that ends the line of position i, Len(s) + 1 if none
LineEnd(s, i) == Least({j \in i..Len(s) : IsNewline(s[j])} \cup {Len(s) + 1})

\* the positions at which ^ matches with the m flag
IsLineStart(s, i) == i = 1 \/ (i - 1 \in DOMAIN s /\ IsNewline(s[i - 1]))

\* the position of the first line start after position i, Len(s) + 1 when the
\* text ends before
NextLineStart(s, i) ==
  IF LineEnd(s, i) > Len(s) THEN Len(s) + 1 ELSE LineEnd(s, i) + 1

\* String.prototype.trim and trimEnd on a text
RECURSIVE TrimTextEnd(_)
TrimTextEnd(s) ==
  IF s # <<>> /\ IsWs(s[Len(s)]) THEN TrimTextEnd(Slice(s, 1, Len(s) - 1)) ELSE s

TrimText(s) == TrimTextEnd(Slice(s, SkipWs(s, 1), Len(s)))

\* escapeHtml (lines 85-92): & first, so the entities it writes stay as they
\* are; text that was escaped before is escaped again
EscapeToken(t) ==
  CASE t.k = "c" /\ t.v = "&" -> <<Ent("amp")>>
    [] t.k = "c" /\ t.v = "<" -> <<Ent("lt")>>
    [] t.k = "c" /\ t.v = ">" -> <<Ent("gt")>>
    [] t.k = "c" /\ t.v = "\"" -> <<Ent("quot")>>
    [] t.k = "c" /\ t.v = "'" -> <<Ent("#39")>>
    [] t.k = "ent" -> <<Ent("amp"), [k |-> "tail", v |-> t.v]>>
    [] t.k = "open" -> <<Ent("lt"), [k |-> "name", v |-> t.v], Ent("gt")>>
    [] t.k = "close" -> <<Ent("lt"), Ch("/"), [k |-> "name", v |-> t.v], Ent("gt")>>
    [] OTHER -> <<t>>

RECURSIVE EscapeHtml(_)
EscapeHtml(s) ==
  IF s = <<>> THEN <<>> ELSE EscapeToken(Head(s)) \o EscapeHtml(Tail(s))

\* ``` at position i
IsFenceAt(s, i) ==
  /\ i >= 1 /\ i + 2 <= Len(s)
  /\ IsCh(s[i], BT) /\ IsCh(s[i + 1], BT) /\ IsCh(s[i + 2], BT)

\* the first ``` from position i on, 0 if none
FirstFence(s, i) == Least({j \in i..Len(s) : IsFenceAt(s, j)} \cup {Len(s) + 1}) % (Len(s) + 1)

\* the closing ``` of the first /```([\s\S]*?)```/ from position i on, 0 if none
FenceClose(s, i) == IF FirstFence(s, i) = 0 THEN 0 ELSE FirstFence(s, FirstFence(s, i) + 3)

\* `@@CODEBLOCK${index}@@`, for the first few blocks of a text
Placeholder(index) == [k |-> "ph", v |-> <<"0", "1", "2", "3">>[index + 1]]

\* `<pre><code>${escapeHtml(code.trimEnd())}</code></pre>` (line 101)
CodeBlock(code) ==
  <<Open("pre"), Open("code")>> \o EscapeHtml(TrimTextEnd(code)) \o <<Close("code"), Close("pre")>>

\* the text with its fenced blocks replaced by their markers (lines 99-103),
\* from position i on, index blocks having been found before
RECURSIVE FencedText(_, _, _)
FencedText(s, i, index) ==
  IF FenceClose(s, i) = 0 THEN Slice(s, i, Len(s))
  ELSE Slice(s, i, FirstFence(s, i) - 1) \o <<Placeholder(index)>>
         \o FencedText(s, FenceClose(s, i) + 3, index + 1)

\* codeBlocks (line 98), from position i on
RECURSIVE FencedBlocks(_, _)
FencedBlocks(s, i) ==
  IF FenceClose(s, i) = 0 THEN <<>>
  ELSE <<CodeBlock(Slice(s, FirstFence(s, i) + 3, FenceClose(s, i) - 1))>>
         \o FencedBlocks(s, FenceClose(s, i) + 3)

\* A step that replaces the matches of a pattern anchored at ^ (flags g, m)
\* goes from line start to line start: where the pattern matches, the match
\* is replaced and the search goes on behind it.

\* the number of # from position i on
HashRun(s, i) == Least({j \in i..Len(s) : ~IsCh(s[j], "#")} \cup {Len(s) + 1}) - i

\* where the .+ or .* that follows a greedy \s+ starts, the \s+ starting at
\* position w: behind the white space if the text goes on there; if the white
\* space runs to the end of the text, \s+ gives back up to the last character
\* that is no newline, keeping one character or more; 0 if there is none
AfterWs(s, w) ==
  IF SkipWs(s, w) = w THEN 0
  ELSE IF SkipWs(s, w) <= Len(s) THEN SkipWs(s, w)
  ELSE Greatest({j \in (w + 1)..Len(s) : ~IsNewline(s[j])} \cup {0})

\* /^(#{1,6})\s+(.+)$/ at the line start i: the position behind the match, 0
\* if there is no match
HeadingEnd(s, i) ==
  LET hashes == HashRun(s, i)
  IN IF hashes < 1 \/ hashes > 6 \/ AfterWs(s, i + hashes) = 0 THEN 0
     ELSE LineEnd(s, AfterWs(s, i + hashes))

\* `<h${level}>${content.trim()}</h${level}>` (lines 109-112)
Heading(s, i) ==
  LET hashes == HashRun(s, i)
      h == <<"h1", "h2", "h3", "h4", "h5", "h6">>[hashes]
      content == Slice(s, AfterWs(s, i + hashes), HeadingEnd(s, i) - 1)
  IN <<Open(h)>> \o TrimText(content) \o <<Close(h)>>

\* text.replace(/^(#{1,6})\s+(.+)$/gm, ...), from the line start i on
RECURSIVE Headings(_, _)
Headings(s, i) ==
  IF i > Len(s) THEN <<>>
  ELSE IF HeadingEnd(s, i) # 0
  THEN Heading(s, i)
         \o Slice(s, HeadingEnd(s, i), NextLineStart(s, HeadingEnd(s, i)) - 1)
         \o Headings(s, NextLineStart(s, HeadingEnd(s, i)))
  ELSE Slice(s, i, NextLineStart(s, i) - 1) \o Headings(s, NextLineStart(s, i))

\* /^>\s?(.*)$/ at the line start i: where (.*) starts, 0 if there is no match
QuoteStart(s, i) ==
  IF ~IsCh(s[i], ">") THEN 0
  ELSE IF i + 1 <= Len(s) /\ IsWs(s[i + 1]) THEN i + 2
  ELSE i + 1

\* text.replace(/^>\s?(.*)$/gm, "<blockquote><p>$1</p></blockquote>"), from
\* the line start i on
RECURSIVE Blockquotes(_, _)
Blockquotes(s, i) ==
  IF i > Len(s) THEN <<>>
  ELSE IF QuoteStart(s, i) # 0
  THEN LET from == QuoteStart(s, i)
           to == IF from > Len(s) THEN from ELSE LineEnd(s, from)
       IN <<Open("blockquote"), Open("p")>> \o Slice(s, from, to - 1)
            \o <<Close("p"), Close("blockquote")>>
            \o Slice(s, to, NextLineStart(s, to) - 1)
            \o Blockquotes(s, NextLineStart(s, to))
  ELSE Slice(s, i, NextLineStart(s, i) - 1) \o Blockquotes(s, NextLineStart(s, i))

\* the position behind \d+\. (ordered) or [-*+] (unordered) at position i, 0
\* if it is not there
MarkerEnd(s, i, ordered) ==
  IF i > Len(s) THEN 0
  ELSE IF ordered
  THEN LET d == Least({j \in i..Len(s) : ~IsDigit(s[j])} \cup {Len(s) + 1})
       IN IF d > i /\ d <= Len(s) /\ IsCh(s[d], ".") THEN d + 1 ELSE 0
  ELSE IF s[i].k = "c" /\ s[i].v \in {"-", "*", "+"} THEN i + 1 ELSE 0

\* one \s*\d+\.\s+.+\n? (or \s*[-*+]\s+.+\n?) from position i: the position
\* behind it, 0 if it does not match
ItemEnd(s, i, ordered) ==
  LET m == MarkerEnd(s, SkipWs(s, i), ordered)
  IN IF m = 0 \/ AfterWs(s, m) = 0 THEN 0
     ELSE LET e == LineEnd(s, AfterWs(s, m))
          IN IF e <= Len(s) THEN e + 1 ELSE e

\* the position behind the items that follow one another from position i
RECURSIVE ItemsEnd(_, _, _)
ItemsEnd(s, i, ordered) ==
  IF ItemEnd(s, i, ordered) = 0 THEN i ELSE ItemsEnd(s, ItemEnd(s, i, ordered), ordered)

\* block.split(/\n/)
RECURSIVE SplitLines(_)
SplitLines(s) ==
  IF LineEnd(s, 1) > Len(s) THEN <<s>>
  ELSE <<Slice(s, 1, LineEnd(s, 1) - 1)>> \o SplitLines(Slice(s, LineEnd(s, 1) + 1, Len(s)))

\* line.replace(/^\s*\d+\.\s+/, "") and line.replace(/^\s*[-*+]\s+/, "")
StripMarker(line, ordered) ==
  LET m == MarkerEnd(line, SkipWs(line, 1), ordered)
  IN IF m = 0 \/ SkipWs(line, m) = m THEN line
     ELSE Slice(line, SkipWs(line, m), Len(line))

RECURSIVE ListItems(_, _)
ListItems(lines, ordered) ==
  IF lines = <<>> THEN <<>>
  ELSE <<Open("li")>> \o StripMarker(Head(lines), ordered) \o <<Close("li")>>
         \o ListItems(Tail(lines), ordered)

\* `<ol>${items}</ol>` and `<ul>${items}</ul>` of a matched block (lines 118-126, 129-137)
ListOf(block, ordered) ==
  LET l == IF ordered THEN "ol" ELSE "ul"
  IN <<Open(l)>> \o ListItems(SplitLines(TrimText(block)), ordered) \o <<Close(l)>>

\* text.replace(/^(?:\s*\d+\.\s+.+\n?)+/gm, ...) and its [-*+] twin, from the
\* line start i on
RECURSIVE Lists(_, _, _)
Lists(s, i, ordered) ==
  IF i > Len(s) THEN <<>>
  ELSE IF ItemEnd(s, i, ordered) # 0
  THEN LET e == ItemsEnd(s, i, ordered)
       IN ListOf(Slice(s, i, e - 1), ordered) \o Lists(s, e, ordered)
  ELSE Slice(s, i, NextLineStart(s, i) - 1) \o Lists(s, NextLineStart(s, i), ordered)

\* text.replace(/`([^`]+)`/g, (_, code) => `<code>${escapeHtml(code)}</code>`)
\* from position i on (line 140)
RECURSIVE InlineCode(_, _)
InlineCode(s, i) ==
  LET p == Least({j \in i..Len(s) : IsCh(s[j], BT)} \cup {Len(s) + 1})
      q == Least({j \in (p + 1)..Len(s) : IsCh(s[j], BT)} \cup {Len(s) + 1})
  IN IF q > Len(s) THEN Slice(s, i, Len(s))
     ELSE IF q = p + 1 THEN Slice(s, i, p) \o InlineCode(s, q)
     ELSE Slice(s, i, p - 1) \o <<Open("code")>> \o EscapeHtml(Slice(s, p + 1, q - 1))
            \o <<Close("code")>> \o InlineCode(s, q + 1)

\* the position of the closing ** of /\*\*(.+?)\*\*/ opened at position p, 0
\* if there is none
BoldClose(s, p) ==
  IF p + 1 > Len(s) \/ ~IsCh(s[p], "*") \/ ~IsCh(s[p + 1], "*") THEN 0
  ELSE Least({e \in (p + 3)..(Len(s) - 1) :
                /\ IsCh(s[e], "*") /\ IsCh(s[e + 1], "*")
                /\ \A j \in (p + 2)..(e - 1) : ~IsNewline(s[j])} \cup {Len(s) + 1}) % (Len(s) + 1)

\* text.replace(/\*\*(.+?)\*\*/g, "<strong>$1</strong>") from position i on (line 143)
RECURSIVE Bold(_, _)
Bold(s, i) ==
  IF i > Len(s) THEN <<>>
  ELSE IF BoldClose(s, i) = 0 THEN <<s[i]>> \o Bold(s, i + 1)
  ELSE <<Open("strong")>> \o Slice(s, i + 2, BoldClose(s, i) - 1) \o <<Close("strong")>>
         \o Bold(s, BoldClose(s, i) + 2)

IsEmph(t) == IsCh(t, "*") \/ IsCh(t, "_")

\* the position of the closing delimiter of /(\*|_)([^*_]+)\1/ opened at
\* position p, 0 if there is none
ItalicClose(s, p) ==
  IF ~IsEmph(s[p]) THEN 0
  ELSE LET r == Least({j \in (p + 1)..Len(s) : IsEmph(s[j])} \cup {Len(s) + 1})
       IN IF r > p + 1 /\ r <= Len(s) /\ s[r] = s[p] THEN r ELSE 0

\* text.replace(/(\*|_)([^*_]+)\1/g, "<em>$2</em>") from position i on (line 144)
RECURSIVE Italics(_, _)
Italics(s, i) ==
  IF i > Len(s) THEN <<>>
  ELSE IF ItalicClose(s, i) = 0 THEN <<s[i]>> \o Italics(s, i + 1)
  ELSE <<Open("em")>> \o Slice(s, i + 1, ItalicClose(s, i) - 1) \o <<Close("em")>>
         \o Italics(s, ItalicClose(s, i) + 1)

\* the positions <<r, u>> of the ] and the ) of /\[([^\]]+)\]\(([^)\s]+)\)/
\* opened at position p, <<0, 0>> if it does not match
LinkEnds(s, p) ==
  IF ~IsCh(s[p], "[") THEN <<0, 0>>
  ELSE LET r == Least({j \in (p + 1)..Len(s) : IsCh(s[j], "]")} \cup {Len(s) + 1})
           u == Least({j \in (r + 2)..Len(s) : IsCh(s[j], ")") \/ IsWs(s[j])} \cup {Len(s) + 1})
       IN IF /\ r > p + 1 /\ r + 1 <= Len(s) /\ IsCh(s[r + 1], "(")
             /\ u > r + 2 /\ u <= Len(s) /\ IsCh(s[u], ")")
          THEN <<r, u>> ELSE <<0, 0>>

\* '<a href="$2" target="_blank" rel="noopener noreferrer">$1</a>'
Anchor(label, url) ==
  <<[k |-> "href", v |-> "a"]>> \o url \o <<[k |-> "attrs", v |-> "a"]>> \o label
    \o <<Close("a")>>

\* text.replace(/\[([^\]]+)\]\(([^)\s]+)\)/g, ...) from position i on (line 147)
RECURSIVE Links(_, _)
Links(s, i) ==
  IF i > Len(s) THEN <<>>
  ELSE IF LinkEnds(s, i)[1] = 0 THEN <<s[i]>> \o Links(s, i + 1)
  ELSE Anchor(Slice(s, i + 1, LinkEnds(s, i)[1] - 1),
              Slice(s, LinkEnds(s, i)[1] + 2, LinkEnds(s, i)[2] - 1))
         \o Links(s, LinkEnds(s, i)[2] + 1)

\* the position behind the newlines that follow one another from position i
NewlinesEnd(s, i) == Least({j \in i..Len(s) : ~IsNewline(s[j])} \cup {Len(s) + 1})

\* the first position from i on where two newlines or more begin, Len(s) + 1
\* if none
BlankStart(s, i) ==
  Least({j \in i..(Len(s) - 1) : IsNewline(s[j]) /\ IsNewline(s[j + 1])} \cup {Len(s) + 1})

\* text.split(/\n{2,}/) from position i on (line 151)
RECURSIVE SplitBlocks(_, _)
SplitBlocks(s, i) ==
  IF BlankStart(s, i) > Len(s) THEN <<Slice(s, i, Len(s))>>
  ELSE <<Slice(s, i, BlankStart(s, i) - 1)>> \o SplitBlocks(s, NewlinesEnd(s, BlankStart(s, i)))

StructuralNames == {"h1", "h2", "h3", "h4", "h5", "h6", "ul", "ol", "li", "pre", "blockquote"}

\* /^<\/?(h\d|ul|ol|li|pre|blockquote)/i.test(trimmed) (line 155)
IsStructural(trimmed) ==
  trimmed # <<>> /\ trimmed[1].k \in {"open", "close"} /\ trimmed[1].v \in StructuralNames

\* the callback of map (lines 152-158)
WrapBlock(block) ==
  LET trimmed == TrimText(block)
  IN IF trimmed = <<>> THEN <<>>
     ELSE IF IsStructural(trimmed) THEN trimmed
     ELSE <<Open("p")>> \o trimmed \o <<Close("p")>>

\* .join("")
RECURSIVE JoinBlocks(_)
JoinBlocks(blocks) ==
  IF blocks = <<>> THEN <<>> ELSE WrapBlock(Head(blocks)) \o JoinBlocks(Tail(blocks))

\* lines 150-159
Paragraphs(s) == JoinBlocks(SplitBlocks(s, 1))

\* What String.prototype.replace makes of the replacement string block: $$ is
\* a $, $& the matched marker, $ and a grave accent the text before the match;
\* an entity starts with &, so a $ before it takes the & away. ($' cannot
\* stand in a block, whose ' are escaped; $1 and $< are kept as they are when
\* the pattern is a string.)
RECURSIVE ReplacementOf(_, _, _)
ReplacementOf(block, before, marker) ==
  IF block = <<>> THEN <<>>
  ELSE IF IsCh(block[1], "$") /\ Len(block) >= 2 /\ IsCh(block[2], "$")
  THEN <<Ch("$")>> \o ReplacementOf(Slice(block, 3, Len(block)), before, marker)
  ELSE IF IsCh(block[1], "$") /\ Len(block) >= 2 /\ block[2].k = "ent"
  THEN <<marker, [k |-> "tail", v |-> block[2].v]>>
         \o ReplacementOf(Slice(block, 3, Len(block)), before, marker)
  ELSE IF IsCh(block[1], "$") /\ Len(block) >= 2 /\ IsCh(block[2], BT)
  THEN before \o ReplacementOf(Slice(block, 3, Len(block)), before, marker)
  ELSE <<block[1]>> \o ReplacementOf(Tail(block), before, marker)

\* text.replace(`@@CODEBLOCK${idx}@@`, block): the first marker of the block
\* gives way to the replacement (line 164)
RestoreBlock(text, idx, block) ==
  LET p == Least({j \in 1..Len(text) : text[j] = Placeholder(idx)} \cup {Len(text) + 1})
  IN IF p > Len(text) THEN text
     ELSE Slice(text, 1, p - 1)
            \o ReplacementOf(block, Slice(text, 1, p - 1), Placeholder(idx))
            \o Slice(text, p + 1, Len(text))

\* codeBlocks.forEach (lines 163-165), from block idx on
RECURSIVE RestoreBlocks(_, _, _)
RestoreBlocks(text, codeBlocks, idx) ==
  IF idx >= Len(codeBlocks) THEN text
  ELSE RestoreBlocks(RestoreBlock(text, idx, codeBlocks[idx + 1]), codeBlocks, idx + 1)

\* the text before the markers are replaced (lines 99-159)
Structured(content) ==
  Paragraphs(Links(Italics(Bold(InlineCode(
    Lists(Lists(Blockquotes(Headings(EscapeHtml(FencedText(Chars(content), 1, 0)), 1), 1),
                1, TRUE), 1, FALSE), 1), 1), 1), 1))

\* renderMarkdown (lines 94-168) of a string given as the sequence of its
\* characters
RenderMarkdown(content) ==
  RestoreBlocks(Structured(content), FencedBlocks(Chars(content), 1), 0)

(* ------------------------ an assistant Bubble -------------------------- *)
\* The content of an assistant message comes from the backend and is any
\* string. Here it is made of up to MaxLines lines out of MdLines.
MaxLines == 3

MdLines ==
  { <<>>,
    <<"t">>,
    <<"7", ".", " ", "a">>,
    <<"1", "0", ".", " ", "b">>,
    <<">", " ", "q">>,
    <<"#", " ", "h">>,
    <<"-", " ", "u">>,
    <<"<", "&">>,
    <<BT, BT, BT>>,
    <<BT, BT, BT, "$", "<", BT, BT, BT>>,
    <<BT, BT, BT, "\"", "'", ">", BT, BT, BT>> }

\* lines.join("\n")
RECURSIVE JoinLines(_)
JoinLines(lines) ==
  IF Len(lines) <= 1 THEN (IF lines = <<>> THEN <<>> ELSE lines[1])
  ELSE lines[1] \o <<"\n">> \o JoinLines(Tail(lines))

Contents == {JoinLines(lines) : lines \in UNION {[1..n -> MdLines] : n \in 1..MaxLines}}

RenderInit ==
  /\ PanelInit
  /\ md \in Contents
  /\ html = [rendered |-> FALSE, out |-> <<>>]

\* Bubble (lines 170-183) with role "assistant": the div's innerHTML is
\* renderMarkdown(content)
RenderBubble ==
  /\ ~html.rendered
  /\ html' = [rendered |-> TRUE, out |-> RenderMarkdown(md)]
  /\ UNCHANGED <<uiVars, refVars, envVars, procVars, md, destroyed, registered>>

RenderNext == RenderBubble

SpecRender == RenderInit /\ [][RenderNext]_vars

(* ------------------------------- Next ---------------------------------- *)
Bootstrap ==
  \E p \in {"boot", "reload"} :
    \/ BootstrapStored(p)
    \/ BootstrapRemoved(p)
    \/ \E tab \in ActiveTabs \cup {NULL} : BootstrapTab(p, tab)
    \/ \E pageInfo \in Extractions : BootstrapExtracted(p, pageInfo)

InitializeForQuestion ==
  \E p \in {"boot", "reload", "create"} :
    \/ InitRead(p)
    \/ \E ok \in BOOLEAN : InitPosted(p, ok)
    \/ InitWritten(p)
    \/ \E who \in WhoamiOutcomes : InitHydrated(p, who)
    \/ InitReturned(p)

CreateSessionWithName ==
  \E p \in {"create", "reload"} :
    \/ \E data \in CreateAnswers : CreatePosted(p, data)
    \/ CreateWritten(p)

DestroySession ==
  \E p \in {"reset", "reload"} :
    \/ \E ok \in BOOLEAN : DeleteAnswered(p, ok)
    \/ SessionRemoved(p)
    \/ MapRead(p)
    \/ MapWritten(p)

SendMessage ==
  \/ HandleSendMessage
  \/ \E ok \in BOOLEAN : SendPosted(ok)
  \/ \E who \in WhoamiOutcomes : SendHydrated(who)

Typing ==
  \/ \E v \in Typed : SetUsername(v)
  \/ \E v \in Typed : SetChatInput(v)

Detection ==
  \/ \E tab \in Tabs : HandleUpdated(tab)
  \/ CheckActiveTab
  \/ \E tab \in ActiveTabs \cup {NULL} : ActiveTabKnown(tab)
  \/ \E i \in 1..MaxInFlight, pageInfo \in Extractions : DetectExtracted(i, pageInfo)

Next ==
  \/ Bootstrap
  \/ InitializeForQuestion
  \/ HandleCreateSession
  \/ CreateSessionWithName
  \/ ResetSession
  \/ HandleReloadForNewQuestion
  \/ DestroySession
  \/ SendMessage
  \/ Typing
  \/ Detection
  \/ SyncQuestionRef
  \/ Cleanup
  \/ Reopen
  \/ RenderBubble

Spec == Init /\ [][Next]_vars

(* --------------------- the parts of the panel alone -------------------- *)
\* An await that is never answered leaves its handler waiting for ever: each
\* specification below lets only some of the handlers resume.

\* question detection: bootstrap, the reload prompt and the detections
DetectNext ==
  \/ Bootstrap
  \/ HandleReloadForNewQuestion
  \/ Detection
  \/ SyncQuestionRef

SpecDetect == Init /\ [][DetectNext]_vars

\* a panel opened and reopened on a stored session
OpenNext ==
  \/ Bootstrap
  \/ InitializeForQuestion
  \/ Reopen

SpecOpen == Init /\ [][OpenNext]_vars

\* a session reset while the panel initializes
ResetNext ==
  \/ Bootstrap
  \/ InitializeForQuestion
  \/ ResetSession
  \/ DestroySession
  \/ SyncQuestionRef

SpecReset == Init /\ [][ResetNext]_vars

\* a session created from the form
CreateNext ==
  \/ Bootstrap
  \/ Typing
  \/ HandleCreateSession
  \/ CreateSessionWithName
  \/ InitializeForQuestion
  \/ SyncQuestionRef

SpecCreate == Init /\ [][CreateNext]_vars

\* a chat on a stored or a created session
SendNext ==
  \/ Bootstrap
  \/ InitializeForQuestion
  \/ Typing
  \/ SendMessage
  \/ SyncQuestionRef

SpecSend == Init /\ [][SendNext]_vars

\* a reload for a question detected by tab events that come one at a time,
\* while bootstrap and the reload are at rest
ReloadNext ==
  \/ Bootstrap
  \/ InitializeForQuestion
  \/ \E tab \in Tabs :
       detecting = <<>> /\ Resting("boot") /\ Resting("reload") /\ HandleUpdated(tab)
  \/ \E i \in 1..MaxInFlight, pageInfo \in Extractions : DetectExtracted(i, pageInfo)
  \/ HandleReloadForNewQuestion
  \/ DestroySession
  \/ CreateSessionWithName
  \/ SyncQuestionRef

SpecReload == Init /\ [][ReloadNext]_vars

\* a panel whose bootstrap and initialization always go on when they can,
\* with detections by the side
BootLiveNext ==
  \/ Bootstrap
  \/ InitializeForQuestion
  \/ Detection
  \/ SyncQuestionRef

SpecBootLive ==
  /\ Init
  /\ [][BootLiveNext]_vars
  /\ WF_vars(Bootstrap)
  /\ WF_vars(InitializeForQuestion)

\* question detection in a panel that is torn down
TeardownNext ==
  \/ DetectNext
  \/ Cleanup

SpecTeardown == Init /\ [][TeardownNext]_vars

(* ------------------------------ the claims ----------------------------- *)
\* C1: a pending question never has the number of the question that is ready.
PendingNeverCurrent ==
  (pendingQuestion # NULL /\ question.status = "ready")
    => pendingQuestion.number # question.number

\* C2: a detection that extracts the number of the question that is ready
\* leaves no pending question.
DetectedCurrentClearsPending ==
  [][\A i \in DOMAIN detecting, pageInfo \in PageInfos :
       ( /\ pageInfo.ok
         /\ question.status = "ready"
         /\ Number(pageInfo.questionNumber) = question.number
         /\ DetectExtracted(i, pageInfo) )
       => pendingQuestion' = NULL]_vars

\* C3: while the question is ready with number n, a detection of m # n sets the
\* pending question to {m, title} when none with number m is pending, and
\* leaves the pending question as it is when one with number m is pending.
RepeatedDetectionKeepsPending ==
  [][\A i \in DOMAIN detecting, pageInfo \in PageInfos :
       LET m == Number(pageInfo.questionNumber)
           title == IF pageInfo.title # <<>> THEN pageInfo.title
                    ELSE <<"LeetCode Question #">> \o pageInfo.questionNumber
       IN ( /\ pageInfo.ok
            /\ question.status = "ready"
            /\ m # question.number
            /\ DetectExtracted(i, pageInfo) )
          => IF pendingQuestion # NULL /\ pendingQuestion.number = m
             THEN pendingQuestion' = pendingQuestion
             ELSE pendingQuestion' = [number |-> m, title |-> title]]_vars

\* C3 witness: question 17 is ready, 42 is pending under the title of its
\* first detection, and the detections, one of them overtaken by a later
\* one, have all been applied.
PendingSetOnce ==
  /\ question.status = "ready" /\ question.number = 17
  /\ pendingQuestion = [number |-> 42, title |-> <<"Trapping Rain Water">>]
  /\ detecting = <<>>
  /\ staleApplied

\* C4: for every (sessionId, questionNumber), at most one POST /questions call
\* that the backend did not reject is issued while the session is alive.
RegisteredAtMostOnce ==
  \A e \in BagToSet(registrations) : CopiesIn(e, registrations) <= 1

\* C5: when resetSession completes, whatever /delete_session answered, the
\* Session is null, no session is stored, and the initialized map has no entry
\* for the session that was reset.
ResetLeavesNothing ==
  [][( /\ ~Resting("reset")
       /\ proc'["reset"].pc = "done" )
     => /\ session' = NULL
        /\ storage'.session = NULL
        /\ SessionMap(storage'.initialized, proc["reset"].sess.sessionId) = {}]_vars

\* C6: submitting the create form with a username of white space only sends
\* nothing and leaves Session, storage, Transcript, Question, PendingQuestion,
\* busy and status as they were.
BlankUsernameChangesNothing ==
  [][( /\ \A i \in DOMAIN username : IsSpace(username[i])
       /\ HandleCreateSession )
     => UNCHANGED <<session, storage, messages, question, pendingQuestion, busy,
                    status, wire, registrations>>]_vars

\* C6 witness: the create form was submitted with a blank username and the
\* handler returned.
BlankUsernameSubmitted ==
  /\ username # <<>>
  /\ \A i \in DOMAIN username : IsSpace(username[i])
  /\ proc["create"].pc = "done"
  /\ proc["create"].phase = "returned"

\* C7: the result of a detection is never applied after the result of a
\* detection started later has been applied.
NoStaleDetectionApplied == ~staleApplied

\* C8: a registration that a reload issues for the session it created is for
\* the question its own bootstrap re-run detected.
ReloadRegistersDetected ==
  (proc["reload"].phase = "create" /\ proc["reload"].pc = "i_post")
    => /\ proc["reload"].latest # NULL
       /\ proc["reload"].qn = proc["reload"].latest.number

\* C9: a request to /questions, /whoami, /chat or /delete_session on the wire
\* carries both auth headers.
AuthenticatedCallsCarryHeaders ==
  (wire # NULL /\ wire.endpoint \in {"questions", "whoami", "chat", "delete_session"})
    => Cardinality(wire.headers) = 2

\* C10: when handleSendMessage completes, the Transcript holds no placeholder.
PlaceholderGoneAfterSend ==
  [][( /\ ~Resting("send")
       /\ proc'["send"].pc = "done" )
     => \A i \in DOMAIN messages' : ~messages'[i].temp]_vars

NoPartialSession ==
  [][\A p \in {"create", "reload"},
        sid \in {SessionIds[i] : i \in DOMAIN SessionIds} \cup {NONE} :
       \A data \in CreateOutcomes(sid) :
         ( /\ ~data.ok \/ ~Truthy(data.auth_token)
           /\ CreatePosted(p, data) )
         => /\ session' = session
            /\ storage' = storage
            /\ messages' = messages
            /\ registrations' = registrations
            /\ wire' = wire
            /\ proc'[p].pc = "done"
            /\ ~busy']_vars

\* C12 witness: a create that was answered without an auth token has ended
\* and there is no Session, in memory or stored.
CreateRefusedWithoutToken ==
  /\ proc["create"].pc = "done"
  /\ status = "Server did not return an auth token."
  /\ session = NULL
  /\ storage.session = NULL

\* C13: a stored session without authToken that bootstrap has read is never
\* the Session, is gone from storage once bootstrap has gone past its read,
\* never reaches the registration or the transcript fetch of an
\* initialization, and no request is sent for it.
LegacySessionAbsent ==
  \A p \in {"boot", "reload"} :
    (proc[p].sess # NULL /\ ~Truthy(proc[p].sess.authToken))
      => /\ session # proc[p].sess
         /\ proc[p].pc # "b_read" => storage.session = NULL
         /\ proc[p].pc \notin {"i_read", "i_post", "i_write", "i_whoami"}
         /\ wire = NULL
         /\ registrations = EmptyBag

\* C13 witness: bootstrap read a stored session without authToken and made
\* the Question Ready.
LegacySessionBootstrapped ==
  /\ proc["boot"].sess # NULL
  /\ ~Truthy(proc["boot"].sess.authToken)
  /\ proc["boot"].pc = "i_ret"
  /\ question.status = "ready"
  /\ session = NULL

\* C14: PendingQuestion is non-null only while the Question is Ready.
PendingOnlyWhileReady ==
  pendingQuestion # NULL => question.status = "ready"

\* C15: every bootstrap run that has started leads to a Question that is
\* NotApplicable, Error or Ready.
BootstrapResolves ==
  (proc["boot"].pc = "b_read")
    ~> (question.status \in {"notLeetCode", "error", "ready"})

\* C16: once the cleanup of the polling effect has run, no step asks for the
\* active tab, starts a detection, or lets the answer of a tab query touch
\* lastTabUrlRef or PendingQuestion.
NothingStartsAfterTeardown ==
  [][(proc["poll"].pc = "done")
     => /\ tabChecks' <= tabChecks
        /\ Len(detecting') <= Len(detecting)
        /\ tabChecks' # tabChecks
             => UNCHANGED <<detecting, pendingQuestion, lastTabUrlRef>>]_vars

\* C16 witness: a tab query that was in flight at the cleanup has been answered
\* and no detection is in flight.
TabQueryDroppedAfterTeardown ==
  /\ proc["poll"].pc = "done"
  /\ proc["poll"].phase = "dropped"
  /\ tabChecks = 0
  /\ detecting = <<>>

\* sub stands in s, its tokens one behind the other
Occurs(sub, s) ==
  \E i \in 0..(Len(s) - Len(sub)) : \A j \in 1..Len(sub) : s[i + j] = sub[j]

\* C17: the content of every fenced code block of a rendered text stands in
\* the output escaped and whole between <pre><code> and </code></pre>; no
\* later step has changed it.
FencedContentShownEscaped ==
  html.rendered =>
    \A n \in 1..Len(FencedBlocks(Chars(md), 1)) :
      Occurs(FencedBlocks(Chars(md), 1)[n], html.out)

\* the text has no grave accent, so no fenced block and no inline code
NoGrave(content) == \A i \in 1..Len(content) : content[i] # BT

\* what the specification gives for a source line that begins with >
QuoteOf(line) ==
  <<Open("blockquote"), Open("p")>>
    \o EscapeHtml(Slice(line, IF Len(line) >= 2 /\ IsWs(line[2]) THEN 3 ELSE 2, Len(line)))
    \o <<Close("p"), Close("blockquote")>>

\* C18: every source line that begins with > stands in the output as a
\* blockquote of its own that holds a paragraph with the rest of the line.
QuoteLinesRendered ==
  html.rendered /\ NoGrave(md) =>
    \A n \in 1..Len(SplitLines(Chars(md))) :
      LET line == SplitLines(Chars(md))[n]
      IN line # <<>> /\ IsCh(line[1], ">") => Occurs(QuoteOf(line), html.out)

\* the text of a source line of the form <number>. <text>, <<>> for any
\* other line
NumberedText(line) ==
  LET m == MarkerEnd(line, 1, TRUE)
  IN IF m # 0 /\ m <= Len(line) /\ IsWs(line[m]) /\ SkipWs(line, m) <= Len(line)
     THEN Slice(line, SkipWs(line, m), Len(line)) ELSE <<>>

\* the runs of numbered lines that follow one another, each as the texts of
\* its lines; run holds the lines of the run that is open
RECURSIVE RunsOf(_, _)
RunsOf(lines, run) ==
  IF lines = <<>> THEN (IF run = <<>> THEN <<>> ELSE <<run>>)
  ELSE IF NumberedText(Head(lines)) # <<>>
  THEN RunsOf(Tail(lines), Append(run, NumberedText(Head(lines))))
  ELSE (IF run = <<>> THEN <<>> ELSE <<run>>) \o RunsOf(Tail(lines), <<>>)

\* the contents of the <li> elements of a list body
RECURSIVE ItemsIn(_)
ItemsIn(s) ==
  IF s = <<>> THEN <<>>
  ELSE LET c == Least({j \in 1..Len(s) : s[j] = Close("li")} \cup {Len(s) + 1})
       IN <<Slice(s, 2, c - 1)>> \o ItemsIn(Slice(s, c + 1, Len(s)))

\* the <ol> elements of an output, each as the contents of its items
RECURSIVE ListsIn(_)
ListsIn(s) ==
  LET p == Least({j \in 1..Len(s) : s[j] = Open("ol")} \cup {Len(s) + 1})
      q == Least({j \in p..Len(s) : s[j] = Close("ol")} \cup {Len(s) + 1})
  IN IF p > Len(s) THEN <<>>
     ELSE <<ItemsIn(Slice(s, p + 1, q - 1))>> \o ListsIn(Slice(s, q + 1, Len(s)))

\* C19: the ordered lists of the output are the runs of consecutive
\* <number>. <text> lines of the source, one list for a run, one item for a
\* line, in source order and without the numbers.
NumberedRunsRendered ==
  html.rendered /\ NoGrave(md) =>
    ListsIn(html.out) = RunsOf(SplitLines(Chars(md)), <<>>)

\* the token opens or closes a heading, a list, a list item, a blockquote
\* or a code block
IsStructure(t) == t.k \in {"open", "close"} /\ t.v \in StructuralNames

\* C20: no paragraph of the output encloses a block that is a heading, a
\* list, a blockquote or a fenced code block, no paragraph is empty or
\* directly inside another, and a text of empty blocks alone gives no output.
ParagraphsWrapTextOnly ==
  html.rendered =>
    /\ \A i \in 1..Len(html.out) :
         html.out[i] = Open("p") =>
           /\ i < Len(html.out)
           /\ ~IsStructure(html.out[i + 1])
           /\ html.out[i + 1] \notin {Open("p"), Close("p")}
    /\ (\A i \in 1..Len(md) : md[i] = "\n") => html.out = <<>>

\* C21: the initialized map has no entry for a sessionId that reset or reload
\* has destroyed, and every entry it has is a pair that the backend has
\* registered with success.
MapFollowsSessions ==
  /\ \A sid \in destroyed : SessionMap(storage.initialized, sid) = {}
  /\ storage.initialized \subseteq registered

\* C22: an update event for a tab that is not the active tab of the current
\* window leaves PendingQuestion as it is, at the event and when the
\* detection it started resumes.
BackgroundTabLeavesPending ==
  [][ /\ \A tab \in BackgroundTabs : HandleUpdated(tab) => pendingQuestion' = pendingQuestion
      /\ \A i \in DOMAIN detecting, pageInfo \in PageInfos :
           (~detecting[i].tab.active /\ DetectExtracted(i, pageInfo))
             => pendingQuestion' = pendingQuestion ]_vars

\* no handler of the panel is between its call and its return
NothingInFlight == \A p \in Procs \ {"poll"} : Resting(p)

\* C23: whenever the Session is null and no operation is in flight, the
\* Transcript is empty.
NoSessionNoTranscript ==
  (session = NULL /\ NothingInFlight) => messages = <<>>

\* C24: a send is accepted only when no send is in flight, a Session exists,
\* the Question is Ready and the trimmed input is not empty; the sending flag
\* is set as long as the send is in flight and cleared when it completes.
OneChatInFlight ==
  [][ /\ (~isSending /\ isSending')
           => /\ Resting("send")
              /\ session # NULL
              /\ question.status = "ready"
              /\ Trim(chatInput) # <<>>
              /\ proc'["send"].pc = "s_post"
      /\ proc'["send"].pc \in {"s_post", "s_whoami"} => isSending'
      /\ (~Resting("send") /\ proc'["send"].pc = "done") => ~isSending' ]_vars

\* a send has failed and a second one is in flight
SecondSendAfterFailure ==
  /\ proc["send"].pc = "s_post"
  /\ isSending
  /\ \E i \in DOMAIN messages : messages[i] = ErrorTurn("Chat request failed.")

====
